---- MODULE Spec2Model ----
(***************************************************************************)
(* State-machine model of dpxdt/client/capture.js, the PhantomJS script    *)
(* that loads one page, waits for it to settle, injects CSS/JS and renders *)
(* one screenshot.                                                         *)
(*                                                                         *)
(* Every JavaScript handler runs to completion on the single event-loop    *)
(* thread, so each handler (with every call it makes) is one action.       *)
(* phantom.exit(code) records the return value and asks the event loop to  *)
(* stop; it does not unwind the JavaScript that called it, so the rest of  *)
(* the running handler still executes, and no handler runs afterwards.     *)
(***************************************************************************)
EXTENDS Integers, Sequences, FiniteSets, TLC

\* ------------------------------------------------------------------ bounds
MaxLoads == 2      \* load-finished events the platform delivers
MaxRequests == 2   \* resource requests the page dispatches

\* ----------------------------------------------------------------- strings
\* A string is a sequence of one-character strings, so that indexOf,
\* equality and RegExp matching are computed, not assumed.
DataPrefix == <<"d", "a", "t", "a", ":">>
GoogleAnalytics ==
    <<"w", "w", "w", ".", "g", "o", "o", "g", "l", "e", "-", "a", "n", "a",
      "l", "y", "t", "i", "c", "s", ".", "c", "o", "m">>
AdsPattern == <<"a", "d", "s">>

UrlPage == <<"h", "/", "p">>
UrlQuery == <<"h", "/", "a", "?", "b">>
UrlData == DataPrefix \o AdsPattern
HostPattern == <<"h", "/">>
UrlGA == HostPattern \o GoogleAnalytics \o <<"/", "g">>
Urls == {UrlPage, UrlQuery, UrlData, UrlGA}
NoUrl == <<>>

\* url.indexOf('data:') == 0
IsDataUri(url) == Len(url) >= Len(DataPrefix) /\ SubSeq(url, 1, Len(DataPrefix)) = DataPrefix

\* One pattern atom against one character: '.' matches any character.
AtomMatches(a, c) == a = "." \/ a = c

\* The pattern matches a prefix of s.  Atoms are literal characters, '.',
\* and an atom followed by '?' (zero or one occurrence).
RECURSIVE MatchHere(_, _)
MatchHere(pat, s) ==
    IF pat = <<>> THEN TRUE
    ELSE IF Len(pat) >= 2 /\ pat[2] = "?"
         THEN \/ MatchHere(SubSeq(pat, 3, Len(pat)), s)
              \/ /\ s # <<>>
                 /\ AtomMatches(pat[1], s[1])
                 /\ MatchHere(SubSeq(pat, 3, Len(pat)), Tail(s))
         ELSE /\ s # <<>>
              /\ AtomMatches(pat[1], s[1])
              /\ MatchHere(Tail(pat), Tail(s))

\* url.match(new RegExp(pat)): an unanchored search.
RegExpMatch(pat, url) ==
    \E k \in 1..(Len(url) + 1) : MatchHere(pat, SubSeq(url, k, Len(url)))

\* bad == url || url.match(new RegExp(bad)), for every pattern and URL of
\* the model.
MatchTable ==
    [pat \in {GoogleAnalytics, AdsPattern, UrlQuery, HostPattern, UrlPage} |->
        [url \in Urls |-> pat = url \/ RegExpMatch(pat, url)]]
PatternMatches(pat, url) == MatchTable[pat][url]

\* ------------------------------------------------------------------ inputs
ArgCounts == {2, 3, 4}     \* system.args.length, script name included

\* The config file: unparsable text, the JSON value null, or an object.
\* targetUrl = <<>> stands for a missing or empty field; ignoreSet tells
\* whether resourcesToIgnore is present; injectHeaders = <<>> stands for a
\* config without injectHeaders.
\* <<injectCss, injectJs>>: a config that injects nothing and one that
\* injects both (doInject treats either injection alike, but for the throw).
Injections == {<<FALSE, FALSE>>, <<TRUE, TRUE>>}
Files ==
    {[kind |-> k, targetUrl |-> <<>>, injectCss |-> FALSE, injectJs |-> FALSE,
      ignoreSet |-> FALSE, resourcesToIgnore |-> <<>>, injectHeaders |-> <<>>] :
        k \in {"unparsable", "null"}}
    \cup
    {[kind |-> "object", targetUrl |-> t, injectCss |-> j[1], injectJs |-> j[2],
      ignoreSet |-> i, resourcesToIgnore |-> IF i THEN <<AdsPattern, UrlQuery>> ELSE <<>>,
      injectHeaders |-> <<>>] :
        t \in {<<>>, UrlPage}, j \in Injections, i \in BOOLEAN}

\* config.injectHeaders: the entries in the order of the object's keys, each
\* a URL pattern with its map from header names to values.
HeaderNames == {"X", "Y"}
NoHeaders == [h \in HeaderNames |-> "none"]
HeaderConfigs ==
    { << [host |-> HostPattern, headers |-> [X |-> "1", Y |-> "1"]],
         [host |-> UrlPage, headers |-> [X |-> "2"]] >>,
      << [host |-> AdsPattern, headers |-> [X |-> "2"]] >> }

\* Config files that set injectHeaders.
HeaderFiles ==
    {[kind |-> "object", targetUrl |-> UrlPage, injectCss |-> TRUE, injectJs |-> TRUE,
      ignoreSet |-> TRUE, resourcesToIgnore |-> <<AdsPattern, UrlQuery>>,
      injectHeaders |-> ih] : ih \in HeaderConfigs}

NoConfig ==
    [kind |-> "undefined", targetUrl |-> <<>>, injectCss |-> FALSE,
     injectJs |-> FALSE, ignoreSet |-> FALSE, resourcesToIgnore |-> <<>>,
     injectHeaders |-> <<>>]

badResources == <<GoogleAnalytics>>

\* Mutant: a configured resourcesToIgnore is left as the config file has it.
EffectiveIgnoreAsConfigured(f) ==
    IF f.ignoreSet THEN f.resourcesToIgnore ELSE badResources

\* The blocklist the script installs in config.resourcesToIgnore.
EffectiveIgnore(f) ==
    IF f.ignoreSet THEN f.resourcesToIgnore \o badResources ELSE badResources

ResourceStatus ==
    [DONE |-> "done", ERROR |-> "error", TIMEOUT |-> "timeout", PENDING |-> "pending"]
Undefined == "undefined"
Statuses == {ResourceStatus.DONE, ResourceStatus.ERROR, ResourceStatus.TIMEOUT,
             ResourceStatus.PENDING, Undefined}
Resolved == {ResourceStatus.DONE, ResourceStatus.ERROR, ResourceStatus.TIMEOUT}

NoExit == -1

\* --------------------------------------------------------------------- DOM
\* The states of the page the probe can tell apart: a settled page, and
\* one page for each way the probe can fail.
Img(c, h) == [complete |-> c, naturalHeight |-> h]
DomSettled == [readyState |-> "complete", imgs |-> <<Img(TRUE, 1)>>, lazy |-> 1, unveiled |-> 1]
DomLoading == [DomSettled EXCEPT !.readyState = "loading"]
DomImgIncomplete == [DomSettled EXCEPT !.imgs = <<Img(FALSE, 0)>>]
DomImgBroken == [DomSettled EXCEPT !.imgs = <<Img(TRUE, 0)>>]
DomVeiled == [DomSettled EXCEPT !.unveiled = 0]
Doms == {DomSettled, DomLoading, DomImgIncomplete, DomImgBroken, DomVeiled}

VARIABLES
    args,               \* system.args.length
    file,               \* content of the config file
    config,             \* the parsed config, blocklist installed
    phase,              \* "script", "loop", "terminated" or "stalled"
    opened,             \* page.open has been called
    resourceStatusMap,  \* the ledger: URL -> status
    inflight,           \* dispatches not yet answered, per URL
    sent,               \* the headers set on the request handled last
    nreq,               \* request events delivered so far
    loads,              \* load-finished events delivered so far
    intervals,          \* live setInterval timers of onLoadFinished
    polls,              \* pending setTimeout polls of waitForReady, per func
    dom,                \* what the in-page probe would see
    injects,            \* runs of doInject
    injectThrew,        \* an injectJs evaluation threw
    queued,             \* a request the injection caused, event not yet delivered
    renders,            \* calls of page.render
    exitCode,           \* the value phantom.exit was last called with
    log                 \* exit and render calls, in order

vars == <<args, file, config, phase, opened, resourceStatusMap, inflight, sent, nreq,
          loads, intervals, polls, dom, injects,
          injectThrew, queued, renders, exitCode, log>>

\* ------------------------------------------------------- the script's state
\* The part of the state the handlers read and write, as one value, so that
\* a handler and the calls it makes compose as functions.
Machine ==
    [map |-> resourceStatusMap, inflight |-> inflight, sent |-> sent, nreq |-> nreq,
     intervals |-> intervals, polls |-> polls, injects |-> injects,
     injectThrew |-> injectThrew, queued |-> queued, renders |-> renders,
     exitCode |-> exitCode,
     log |-> log]

\* phantom.exit(code): the return value is recorded; the caller goes on.
PhantomExit(m, code) ==
    [m EXCEPT !.exitCode = code,
              !.log = Append(@, IF code = 0 THEN "exit0" ELSE "exit1")]

\* The for-loop over config.resourcesToIgnore, first match aborts.
IsBlocked(url) ==
    \E i \in 1..Len(config.resourcesToIgnore) :
        PatternMatches(config.resourcesToIgnore[i], url)

\* Mutant: the abort is not followed by a return, so an aborted request
\* falls through to the PENDING assignment.
OnResourceRequestedNoReturn(m, url) ==
    [m EXCEPT !.nreq = @ + 1,
              !.inflight[url] = @ + 1,
              !.map[url] = ResourceStatus.PENDING]

\* Mutant: a request leaves an entry that already exists as it is.
OnResourceRequestedKeep(m, url) ==
    IF ~IsDataUri(url) /\ IsBlocked(url)
    THEN [m EXCEPT !.nreq = @ + 1]
    ELSE [m EXCEPT !.nreq = @ + 1,
                   !.inflight[url] = @ + 1,
                   !.map[url] = IF @ = Undefined THEN ResourceStatus.PENDING ELSE @]

RECURSIVE InjectHeaders(_, _, _)

\* Mutant: a header that an earlier entry has set is not set again.
InjectHeadersKeepFirst(injectHeaders, url, set) ==
    LET Hit(i) == PatternMatches(injectHeaders[i].host, url)
    IN  [h \in HeaderNames |->
            LET first == {i \in 1..Len(injectHeaders) :
                            /\ Hit(i) /\ h \in DOMAIN injectHeaders[i].headers
                            /\ \A j \in 1..(i - 1) :
                                  ~(Hit(j) /\ h \in DOMAIN injectHeaders[j].headers)}
            IN  IF first = {} THEN set[h]
                ELSE injectHeaders[CHOOSE i \in first : TRUE].headers[h]]

\* The for-in loop over config.injectHeaders: every entry whose key equals
\* or matches the URL calls networkRequest.setHeader for each of its headers.
InjectHeaders(injectHeaders, url, set) ==
    IF injectHeaders = <<>> THEN set
    ELSE LET host == Head(injectHeaders).host
             headers == Head(injectHeaders).headers
             set1 == IF PatternMatches(host, url)
                     THEN [h \in HeaderNames |->
                             IF h \in DOMAIN headers THEN headers[h] ELSE set[h]]
                     ELSE set
         IN  InjectHeaders(Tail(injectHeaders), url, set1)

\* Mutant: no test for data: URIs, every request goes through the blocklist
\* and the header loop.
OnResourceRequestedNoDataTest(m, url) ==
    IF IsBlocked(url)
    THEN [m EXCEPT !.nreq = @ + 1, !.sent = NoHeaders]
    ELSE [m EXCEPT !.nreq = @ + 1,
                   !.sent = InjectHeaders(config.injectHeaders, url, NoHeaders),
                   !.inflight[url] = @ + 1,
                   !.map[url] = ResourceStatus.PENDING]

\* page.onResourceRequested
OnResourceRequested(m, url) ==
    IF IsDataUri(url)
    THEN [m EXCEPT !.nreq = @ + 1,
                   !.sent = NoHeaders,
                   !.inflight[url] = @ + 1,
                   !.map[url] = ResourceStatus.PENDING]
    ELSE IF IsBlocked(url)
    THEN [m EXCEPT !.nreq = @ + 1, !.sent = NoHeaders]
    ELSE [m EXCEPT !.nreq = @ + 1,
                   !.sent = InjectHeaders(config.injectHeaders, url, NoHeaders),
                   !.inflight[url] = @ + 1,
                   !.map[url] = ResourceStatus.PENDING]

\* Mutant: the handler without the test of response.stage.
OnResourceReceivedAnyStage(m, url, stage, redirectURL) ==
    [m EXCEPT !.inflight[url] = IF @ > 0 THEN @ - 1 ELSE @,
              !.map[url] = IF @ = ResourceStatus.PENDING
                           THEN ResourceStatus.DONE ELSE @]

\* page.onResourceReceived: the data: test and response.redirectURL choose
\* the line that is logged, nothing else.
OnResourceReceived(m, url, stage, redirectURL) ==
    IF stage # "end" THEN m
    ELSE [m EXCEPT !.inflight[url] = IF @ > 0 THEN @ - 1 ELSE @,
                   !.map[url] = IF @ = ResourceStatus.PENDING
                                THEN ResourceStatus.DONE ELSE @]

\* Mutant: the timeout handler records the timeout whatever the entry is.
OnResourceTimeoutAlways(m, url) ==
    [m EXCEPT !.inflight[url] = IF @ > 0 THEN @ - 1 ELSE @,
              !.map[url] = ResourceStatus.TIMEOUT]

\* page.onResourceTimeout
OnResourceTimeout(m, url) ==
    [m EXCEPT !.inflight[url] = IF @ > 0 THEN @ - 1 ELSE @,
              !.map[url] = IF @ = ResourceStatus.PENDING
                           THEN ResourceStatus.TIMEOUT ELSE @]

\* Mutant: the error handler without its PENDING guard.
OnResourceErrorUnguarded(m, url) ==
    [m EXCEPT !.inflight[url] = IF @ > 0 THEN @ - 1 ELSE @,
              !.map[url] = IF @ = Undefined THEN @ ELSE ResourceStatus.ERROR]

\* page.onResourceError
OnResourceError(m, url) ==
    [m EXCEPT !.inflight[url] = IF @ > 0 THEN @ - 1 ELSE @,
              !.map[url] = IF @ = ResourceStatus.PENDING
                           THEN ResourceStatus.ERROR ELSE @]

\* Mutant: entries in ERROR are counted as PENDING.
TotalsErrorPending(map) ==
    [s \in Resolved \cup {ResourceStatus.PENDING} |->
        IF s = ResourceStatus.PENDING
        THEN Cardinality({u \in Urls : map[u] \in {ResourceStatus.PENDING,
                                                    ResourceStatus.ERROR}})
        ELSE Cardinality({u \in Urls : map[u] = s})]

\* The totals object waitForReady builds: entries per status.
Totals(map) ==
    [s \in Resolved \cup {ResourceStatus.PENDING} |->
        Cardinality({u \in Urls : map[u] = s})]

\* page.doScreenshot: render, then exit(0).
DoScreenshot(m) ==
    PhantomExit([m EXCEPT !.renders = @ + 1, !.log = Append(@, "render")], 0)

\* What the page does while injected code is evaluated: whether injectJs
\* throws, a request the evaluation makes the page dispatch at once, and a
\* request it makes the page dispatch later (a style recalculation, a timer).
Envs == [throws : BOOLEAN, sync : Urls \cup {NoUrl}, later : {NoUrl, UrlPage, UrlGA}]

RECURSIVE WaitForReady(_, _, _)

\* page.doInject
DoInject(m, env) ==
    LET didInject == config.injectCss \/ config.injectJs
        m1 == [m EXCEPT !.injects = @ + 1]
        m2 == IF didInject /\ env.sync # NoUrl /\ m1.nreq < MaxRequests
              THEN OnResourceRequested(m1, env.sync) ELSE m1
        m2q == IF didInject /\ env.later # NoUrl /\ m2.queued = NoUrl
                  /\ m2.nreq < MaxRequests
               THEN [m2 EXCEPT !.queued = env.later] ELSE m2
        success == ~(config.injectJs /\ env.throws)
        m3 == IF ~success
              THEN PhantomExit([m2q EXCEPT !.injectThrew = TRUE], 1) ELSE m2q
    IN  WaitForReady(m3, "doScreenshot", env)

\* Mutant: waitForReady without the setTimeout that polls again.
WaitForReadyNoRetry(m, func, env) ==
    LET pending == Totals(m.map)[ResourceStatus.PENDING]
    IN  IF pending = 0
        THEN IF func = "doInject" THEN DoInject(m, env) ELSE DoScreenshot(m)
        ELSE m

\* page.waitForReady
WaitForReady(m, func, env) ==
    LET pending == Totals(m.map)[ResourceStatus.PENDING]
    IN  IF pending = 0
        THEN IF func = "doInject" THEN DoInject(m, env) ELSE DoScreenshot(m)
        ELSE [m EXCEPT !.polls[func] = @ + 1]

\* page.isDone
IsDone(d) ==
    IF d.readyState # "complete" THEN FALSE
    ELSE IF \E i \in 1..Len(d.imgs) :
                ~(d.imgs[i].complete /\ d.imgs[i].naturalHeight # 0)
         THEN FALSE
    ELSE IF d.lazy # d.unveiled THEN FALSE
    ELSE TRUE

\* The first assignment to page.onLoadFinished (debug logging, exit on a
\* failed load).
OnLoadFinishedLogging(m, status) ==
    IF status = "success" THEN m ELSE PhantomExit(m, 1)

\* The second assignment to page.onLoadFinished: start the completion poll.
OnLoadFinishedPolling(m, status) == [m EXCEPT !.intervals = @ + 1]

\* The handler installed when the load finishes: the later assignment
\* replaces the earlier one.
OnLoadFinished(m, status) == OnLoadFinishedPolling(m, status)

\* Mutant: the interval callback without the isDone probe.
OnIntervalNoProbe(m, d, env) ==
    WaitForReady([m EXCEPT !.intervals = @ - 1], "doInject", env)

\* The body of the setInterval callback.
OnInterval(m, d, env) ==
    IF IsDone(d)
    THEN WaitForReady([m EXCEPT !.intervals = @ - 1], "doInject", env)
    ELSE m

\* ------------------------------------------------------------------ actions
InitWith(files) ==
    /\ args \in ArgCounts
    /\ file \in files
    /\ config = NoConfig
    /\ phase = "script"
    /\ opened = FALSE
    /\ resourceStatusMap = [u \in Urls |-> Undefined]
    /\ inflight = [u \in Urls |-> 0]
    /\ sent = NoHeaders
    /\ nreq = 0
    /\ loads = 0
    /\ intervals = 0
    /\ polls = [f \in {"doInject", "doScreenshot"} |-> 0]
    /\ dom = DomLoading
    /\ injects = 0
    /\ injectThrew = FALSE
    /\ queued = NoUrl
    /\ renders = 0
    /\ exitCode = NoExit
    /\ log = <<>>

Init == InitWith(Files)

\* The handler has returned with the state m: once exit has been asked
\* for, the event loop stops.
Commit(m) ==
    /\ resourceStatusMap' = m.map
    /\ inflight' = m.inflight
    /\ sent' = m.sent
    /\ nreq' = m.nreq
    /\ intervals' = m.intervals
    /\ polls' = m.polls
    /\ injects' = m.injects
    /\ injectThrew' = m.injectThrew
    /\ queued' = m.queued
    /\ renders' = m.renders
    /\ exitCode' = m.exitCode
    /\ log' = m.log

\* The top-level script: argument check, config read, required fields,
\* page set-up, page.open.
RunScript ==
    /\ phase = "script"
    /\ LET argsOk == args = 3
           m1 == IF argsOk THEN Machine ELSE PhantomExit(Machine, 1)
           parsed == argsOk /\ file.kind # "unparsable"
           m2 == IF parsed THEN m1 ELSE PhantomExit(m1, 1)
           \* config[field] on undefined or null is a TypeError that ends
           \* the script
           typeError == ~parsed \/ file.kind = "null"
           m3 == IF ~typeError /\ file.targetUrl = <<>>
                 THEN PhantomExit(m2, 1) ELSE m2
       IN  IF typeError
           THEN /\ Commit(m2)
                /\ phase' = IF m2.exitCode # NoExit THEN "terminated" ELSE "stalled"
                /\ UNCHANGED <<config, opened>>
           ELSE /\ Commit(m3)
                /\ config' = [file EXCEPT !.ignoreSet = TRUE,
                                          !.resourcesToIgnore = EffectiveIgnore(file)]
                /\ opened' = TRUE
                /\ phase' = IF m3.exitCode # NoExit THEN "terminated" ELSE "loop"
    /\ UNCHANGED <<args, file, loads, dom>>

Running == phase = "loop" /\ opened

After(m) ==
    /\ Commit(m)
    /\ phase' = IF m.exitCode # NoExit THEN "terminated" ELSE phase

ResourceRequested(url) ==
    /\ Running
    /\ nreq < MaxRequests
    /\ After(OnResourceRequested(Machine, url))
    /\ UNCHANGED <<args, file, config, opened, loads, dom>>

\* The request event of a request the injection caused arrives.
QueuedRequested ==
    /\ Running
    /\ queued # NoUrl
    /\ nreq < MaxRequests
    /\ After(OnResourceRequested([Machine EXCEPT !.queued = NoUrl], queued))
    /\ UNCHANGED <<args, file, config, opened, loads, dom>>

ResourceReceived(url, stage) ==
    /\ Running
    /\ After(OnResourceReceived(Machine, url, stage, NoUrl))
    /\ UNCHANGED <<args, file, config, opened, loads, dom>>

\* The end of a response that redirects to target.
ResourceRedirected(url, target) ==
    /\ Running
    /\ After(OnResourceReceived(Machine, url, "end", target))
    /\ UNCHANGED <<args, file, config, opened, loads, dom>>

ResourceTimeout(url) ==
    /\ Running
    /\ After(OnResourceTimeout(Machine, url))
    /\ UNCHANGED <<args, file, config, opened, loads, dom>>

ResourceError(url) ==
    /\ Running
    /\ After(OnResourceError(Machine, url))
    /\ UNCHANGED <<args, file, config, opened, loads, dom>>

LoadFinished(status) ==
    /\ Running
    /\ loads < MaxLoads
    /\ loads' = loads + 1
    /\ After(OnLoadFinished(Machine, status))
    /\ UNCHANGED <<args, file, config, opened, dom>>

\* The page's part in a poll for func: it acts only if the poll goes on to
\* doInject, and then only as far as the config injects anything.
QuietEnv == [throws |-> FALSE, sync |-> NoUrl, later |-> NoUrl]
EnvsAt(func, probe) ==
    IF func = "doInject" /\ probe /\ Totals(resourceStatusMap)[ResourceStatus.PENDING] = 0
    THEN {e \in Envs : /\ e.throws => config.injectJs
                       /\ e.sync # NoUrl \/ e.later # NoUrl =>
                             config.injectCss \/ config.injectJs}
    ELSE {QuietEnv}

\* One firing of the setInterval timer of onLoadFinished.
IntervalTick ==
    /\ Running
    /\ intervals > 0
    /\ \E env \in EnvsAt("doInject", IsDone(dom)) : After(OnInterval(Machine, dom, env))
    /\ UNCHANGED <<args, file, config, opened, loads, dom>>

\* One firing of a setTimeout(function() { page.waitForReady(func) }, 500).
PollTimer(func) ==
    /\ Running
    /\ polls[func] > 0
    /\ \E env \in EnvsAt(func, TRUE) :
          After(WaitForReady([Machine EXCEPT !.polls[func] = @ - 1], func, env))
    /\ UNCHANGED <<args, file, config, opened, loads, dom>>

\* The page changes what the probe sees (parsing, image loads, unveiling).
DomChange(d) ==
    /\ Running
    /\ d # dom
    /\ dom' = d
    /\ UNCHANGED <<args, file, config, phase, opened, resourceStatusMap, inflight,
                   sent, nreq, loads, intervals, polls, injects,
                   injectThrew, queued, renders, exitCode, log>>

Next ==
    \/ RunScript
    \/ \E url \in Urls : ResourceRequested(url)
    \/ QueuedRequested
    \/ \E url \in Urls, stage \in {"start", "end"} : ResourceReceived(url, stage)
    \/ \E url \in Urls : ResourceRedirected(url, UrlPage)
    \/ \E url \in Urls : ResourceTimeout(url)
    \/ \E url \in Urls : ResourceError(url)
    \/ \E status \in {"success", "fail"} : LoadFinished(status)
    \/ IntervalTick
    \/ \E func \in {"doInject", "doScreenshot"} : PollTimer(func)
    \/ \E d \in Doms : DomChange(d)

Spec == Init /\ [][Next]_vars

TypeOK ==
    /\ phase \in {"script", "loop", "terminated", "stalled"}
    /\ resourceStatusMap \in [Urls -> Statuses]
    /\ exitCode \in {NoExit, 0, 1}
    /\ dom \in Doms

\* ------------------------------------------------------------------ claims
NoPending(map) == \A u \in Urls : map[u] # ResourceStatus.PENDING

\* The URL matches an entry of the installed blocklist (exact or RegExp).
MatchesIgnore(url) ==
    \E i \in 1..Len(config.resourcesToIgnore) :
        \/ config.resourcesToIgnore[i] = url
        \/ RegExpMatch(config.resourcesToIgnore[i], url)

\* A step that changes the pipeline and in which waitForReady(func) polls
\* the ledger: an interval tick whose probe was true clears its interval and
\* polls for doInject; a timer poll that invokes func leaves one timer less.
PollsFor(func) ==
    \/ func = "doInject" /\ intervals' = intervals - 1
    \/ polls'[func] = polls[func] - 1

\* C1: whenever a continuation is invoked (doInject, doScreenshot), the
\* ledger has no PENDING entry and the in-page probe isDone holds (document
\* complete, every image loaded with non-zero height, lazy-load count equal
\* to the unveiled count), all at that instant.
C1_AllFourAtContinuation ==
    [][/\ injects' # injects =>
            NoPending(resourceStatusMap) /\ IsDone(dom)
       /\ renders' # renders =>
            NoPending(resourceStatusMap') /\ IsDone(dom)]_vars

\* C2: a waitForReady poll invokes its continuation if and only if no
\* ledger entry is PENDING at that poll (DONE, ERROR and TIMEOUT entries
\* never block, one PENDING entry does), and page.render is never called
\* while an entry is PENDING.
C2_PollIffNoPending ==
    [][/\ PollsFor("doInject") =>
            (injects' = injects + 1 <=> NoPending(resourceStatusMap))
       /\ PollsFor("doScreenshot") =>
            (renders' = renders + 1 <=> NoPending(resourceStatusMap))
       /\ injects' # injects => NoPending(resourceStatusMap)
       /\ renders' # renders => NoPending(resourceStatusMap')]_vars

\* C2 witness: the screenshot was rendered with an entry in TIMEOUT and an
\* entry in ERROR in the ledger.
C2_Witness ==
    /\ renders = 1
    /\ \E u, v \in Urls : /\ resourceStatusMap[u] = ResourceStatus.TIMEOUT
                          /\ resourceStatusMap[v] = ResourceStatus.ERROR

\* C3 as stated: no URL that matches the blocklist ever has an entry in
\* DONE, ERROR or TIMEOUT.
C3_MatchingNeverResolved ==
    \A u \in Urls : MatchesIgnore(u) => resourceStatusMap[u] \notin Resolved

\* C3 amended: a URL that does not start with 'data:' and matches the
\* blocklist never has a ledger entry at all, whatever requests and events
\* are delivered for it (a 'data:' URL is never aborted).
C3_BlockedNeverEntered ==
    \A u \in Urls :
        ~IsDataUri(u) /\ MatchesIgnore(u) =>
            resourceStatusMap[u] = Undefined /\ inflight[u] = 0

\* C3 witness: with a configured blocklist, the two requests delivered
\* left no ledger entry, so both were aborted, and the screenshot was
\* rendered.
C3_Witness ==
    /\ file.ignoreSet
    /\ nreq = 2
    /\ \A u \in Urls : resourceStatusMap[u] = Undefined
    /\ renders = 1

\* C4: once an injectJs evaluation has thrown, the exit code is 1 and
\* page.render has not been called.
C4_ThrowExitsWithoutRender ==
    injectThrew => exitCode = 1 /\ renders = 0

\* C5: a load that finishes with a status other than success terminates
\* the run with exit code 1 at once, starting no completion-polling
\* interval, no injection and no render.
C5_FailedLoadTerminates ==
    [][LoadFinished("fail") =>
          /\ exitCode' = 1
          /\ phase' = "terminated"
          /\ intervals' = intervals
          /\ injects' = injects
          /\ renders' = renders]_vars

\* C6: with a wrong argument count, an unparsable config file or a config
\* object without a non-empty targetUrl, the run ends with exit code 1,
\* page.open is never called, the ledger stays empty and nothing renders.
C6_FaultyInvocationNeverOpens ==
    (phase # "script" /\ (\/ args # 3
                          \/ file.kind = "unparsable"
                          \/ file.kind = "object" /\ file.targetUrl = <<>>)) =>
        /\ exitCode = 1
        /\ ~opened
        /\ \A u \in Urls : resourceStatusMap[u] = Undefined
        /\ renders = 0

\* C7: a terminated run is either exit code 0 after exactly one render, or
\* exit code 1 with no render; no render comes after an exit request.
C7_TwoOutcomes ==
    phase = "terminated" =>
        \/ exitCode = 0 /\ log = <<"render", "exit0">>
        \/ exitCode = 1 /\ renders = 0

\* C8: an entry becomes DONE only from PENDING on an end-of-response
\* event, ERROR or TIMEOUT only from PENDING on an error or timeout event;
\* a resolved entry is changed by no response, error or timeout event, only
\* by a new request, which makes it PENDING.
C8_ResolveOnlyFromPending ==
    [][\A u \in Urls :
         /\ resourceStatusMap'[u] # resourceStatusMap[u] =>
              \/ /\ resourceStatusMap'[u] = ResourceStatus.PENDING
                 /\ nreq' = nreq + 1
              \/ /\ resourceStatusMap[u] = ResourceStatus.PENDING
                 /\ nreq' = nreq
                 /\ \/ /\ resourceStatusMap'[u] = ResourceStatus.DONE
                       /\ ResourceReceived(u, "end")
                    \/ /\ resourceStatusMap'[u] = ResourceStatus.ERROR
                       /\ ResourceError(u)
                    \/ /\ resourceStatusMap'[u] = ResourceStatus.TIMEOUT
                       /\ ResourceTimeout(u)
         /\ (resourceStatusMap[u] \in Resolved /\ nreq' = nreq) =>
              resourceStatusMap'[u] = resourceStatusMap[u]]_vars

\* C8 witness: a URL was dispatched twice and answered once, by a
\* timeout; its entry is TIMEOUT while the answer to the other dispatch is
\* still to come.
C8_Witness ==
    \E u \in Urls :
        /\ resourceStatusMap[u] = ResourceStatus.TIMEOUT
        /\ inflight[u] = 1
        /\ nreq = 2

\* C9: a request that is not aborted sets the entry of its URL to PENDING,
\* also when the entry was DONE, ERROR or TIMEOUT; and while an entry is
\* PENDING no poll invokes a continuation.
C9_RedispatchBlocksAgain ==
    [][\A u \in Urls :
         /\ (nreq' # nreq /\ ResourceRequested(u)
                          /\ (IsDataUri(u) \/ ~MatchesIgnore(u))) =>
              resourceStatusMap'[u] = ResourceStatus.PENDING
         /\ resourceStatusMap[u] = ResourceStatus.PENDING =>
              (injects' = injects /\ renders' = renders)
         /\ resourceStatusMap'[u] = ResourceStatus.PENDING =>
              renders' = renders]_vars

\* C9 witness: the only URL requested was requested twice, its first
\* dispatch was answered before the second request, and a poll for
\* doScreenshot found it PENDING again and rescheduled itself.
C9_Witness ==
    \E u \in Urls :
        /\ resourceStatusMap[u] = ResourceStatus.PENDING
        /\ inflight[u] = 1
        /\ nreq = 2
        /\ \A v \in Urls \ {u} : resourceStatusMap[v] = Undefined
        /\ injects = 1
        /\ polls["doScreenshot"] = 1

\* ---------------------------------------------------------------- liveness
\* An answer (end of response, error or timeout) to a dispatch in flight.
Answer(url) ==
    /\ inflight[url] > 0
    /\ \/ ResourceReceived(url, "end")
       \/ ResourceError(url)
       \/ ResourceTimeout(url)

\* The script and the timer callbacks the event loop has to run.
Scheduled ==
    \/ RunScript
    \/ IntervalTick
    \/ \E func \in {"doInject", "doScreenshot"} : PollTimer(func)

ValidInvocation ==
    args = 3 /\ file.kind = "object" /\ file.targetUrl # <<>>

\* A valid invocation whose config sets injectJs and a blocklist: the
\* injection may throw or not, and may make the page dispatch a request,
\* so the runs of the configs without injection are among these; requests
\* are aborted (UrlQuery, UrlGA) or tracked (UrlPage, UrlData).
LiveInit == Init /\ ValidInvocation /\ file.injectJs /\ file.ignoreSet

\* The event loop runs the script and keeps firing the timers that are
\* due, and the network keeps answering the dispatches in flight; the page
\* dispatches at most MaxRequests requests.
LiveSpec ==
    /\ LiveInit
    /\ [][Next]_vars
    /\ WF_vars(Scheduled)
    /\ WF_vars(\E url \in Urls : Answer(url))

Captured == phase = "terminated" /\ exitCode = 0 /\ renders = 1

\* The probe isDone has returned true at a tick: an interval was cleared.
PageDone == intervals < loads

\* C10 as stated: for a valid config, if the probe isDone returns true at
\* some tick (after a load has finished), the run ends rendered with exit
\* code 0.
C10_EventuallyCaptured ==
    (ValidInvocation /\ <>PageDone) => <>Captured

\* C10 amended: once the probe isDone has returned true at a tick, the run
\* ends rendered with exit code 0, unless injectJs throws.
C10_EventuallyCapturedUnlessThrow ==
    (PageDone /\ ~injectThrew) ~> (Captured \/ injectThrew)

\* C10 witness: a run with injectJs set that did not throw ended rendered
\* with exit code 0 although one resource ended in ERROR.
C10_Witness ==
    /\ Captured
    /\ config.injectJs
    /\ ~injectThrew
    /\ \E u \in Urls : resourceStatusMap[u] = ResourceStatus.ERROR

\* C11: however many load-finished events are delivered, doInject runs at
\* most once and page.render is called at most once.
C11_EachContinuationOnce ==
    injects <= 1 /\ renders <= 1

\* C12: the stages run in order.  page.render is called only when doInject
\* has run; doInject runs only after a load-finished event whose interval has
\* been cleared, in a step that starts with no PENDING entry, and the poll
\* that leads to it is started only by an interval tick whose isDone probe is
\* true; the doScreenshot poll is started only by doInject, and page.render
\* is called only when no entry is PENDING after the injection.
C12_PipelineOrder ==
    [][ /\ renders' > 0 => injects' > 0
        /\ injects' > 0 => loads' > 0 /\ intervals' < loads'
        /\ injects' # injects =>
              /\ NoPending(resourceStatusMap)
              /\ intervals' # intervals => IsDone(dom)
        /\ polls'["doInject"] > polls["doInject"] => IsDone(dom)
        /\ polls'["doScreenshot"] > polls["doScreenshot"] => injects' > injects
        /\ renders' # renders => NoPending(resourceStatusMap')
      ]_vars

\* A capture in which the injection ran once, after resources had been
\* tracked and resolved.
C12_Witness ==
    /\ renders = 1 /\ injects = 1 /\ exitCode = 0
    /\ config.injectCss
    /\ \E u \in Urls : resourceStatusMap[u] = ResourceStatus.DONE

\* C13: page.render is not called while a request that the injection caused,
\* and that no pattern blocks, is still on its way to onResourceRequested.
C13_InjectionRequestsCovered ==
    renders > 0 => queued = NoUrl \/ (~IsDataUri(queued) /\ IsBlocked(queued))

\* ------------------------------------------------ header injection (C14)
\* Runs of a valid invocation whose config sets injectHeaders.
HeaderInit == InitWith(HeaderFiles) /\ args = 3

HeaderSpec == HeaderInit /\ [][Next]_vars

\* The value the claim gives header h of a request for url: that of the last
\* entry of injectHeaders, in the order of its keys, whose key equals or
\* matches the URL and whose map has h; no such entry, no header.
LastMatching(url, h) ==
    {i \in 1..Len(config.injectHeaders) :
        /\ \/ config.injectHeaders[i].host = url
           \/ RegExpMatch(config.injectHeaders[i].host, url)
        /\ h \in DOMAIN config.injectHeaders[i].headers
        /\ \A j \in (i + 1)..Len(config.injectHeaders) :
              ~ /\ \/ config.injectHeaders[j].host = url
                   \/ RegExpMatch(config.injectHeaders[j].host, url)
                /\ h \in DOMAIN config.injectHeaders[j].headers}
ClaimedHeaders(url) ==
    [h \in HeaderNames |->
        IF IsDataUri(url) \/ MatchesIgnore(url) \/ LastMatching(url, h) = {}
        THEN "none"
        ELSE config.injectHeaders[CHOOSE i \in LastMatching(url, h) : TRUE].headers[h]]

\* C14: the headers set on a request that is neither blocked nor a data: URI
\* are those of all matching injectHeaders entries applied in order, a later
\* entry overwriting an earlier one; a request that matches no key, and a
\* blocked request, get none.
C14_HeadersOfMatchingEntries ==
    [][\A u \in Urls :
         (nreq' # nreq /\ ~IsDataUri(u)
             /\ (ResourceRequested(u) \/ (queued = u /\ QueuedRequested))) =>
            sent' = ClaimedHeaders(u)]_vars

\* C14 witness: the request for h/p matched both entries of injectHeaders
\* and the later entry overwrote header X of the earlier one.
C14_Witness ==
    /\ Len(config.injectHeaders) = 2
    /\ resourceStatusMap[UrlPage] = ResourceStatus.PENDING
    /\ sent = [X |-> "2", Y |-> "1"]

\* C15: the end of a response that carries a redirectURL leaves the ledger
\* as it was: the entry of the redirecting URL keeps its state.
C15_RedirectLeavesLedger ==
    [][\A u \in Urls :
         (resourceStatusMap' # resourceStatusMap /\ nreq' = nreq) =>
            ~ResourceRedirected(u, UrlPage)]_vars

\* C16: a request for a data: URI is never aborted and gets no injected
\* header, whatever patterns it matches; its entry becomes PENDING, no
\* continuation is invoked while it is PENDING, and it leaves PENDING only
\* for DONE, ERROR or TIMEOUT, by an event that is not a request.
C16_DataUriTrackedUnfiltered ==
    [][\A u \in Urls : IsDataUri(u) =>
         /\ (nreq' # nreq /\ ResourceRequested(u)) =>
               /\ resourceStatusMap'[u] = ResourceStatus.PENDING
               /\ inflight'[u] = inflight[u] + 1
               /\ sent' = NoHeaders
         /\ resourceStatusMap[u] = ResourceStatus.PENDING =>
               /\ injects' = injects /\ renders' = renders
               /\ resourceStatusMap'[u] # ResourceStatus.PENDING =>
                     resourceStatusMap'[u] \in Resolved /\ nreq' = nreq
         /\ resourceStatusMap'[u] = ResourceStatus.PENDING => renders' = renders
      ]_vars

\* C16 witness: the data: URI matches a blocklist pattern and the only
\* injectHeaders key, its entry is PENDING, and the poll for doScreenshot
\* is waiting for it.
C16_Witness ==
    /\ IsDataUri(UrlData)
    /\ MatchesIgnore(UrlData)
    /\ Len(config.injectHeaders) = 1
    /\ RegExpMatch(config.injectHeaders[1].host, UrlData)
    /\ resourceStatusMap[UrlData] = ResourceStatus.PENDING
    /\ polls["doScreenshot"] > 0

\* C17: once the config is read, the installed blocklist is
\* 'www.google-analytics.com' alone if the config file has no
\* resourcesToIgnore, else the configured patterns followed by it; and no
\* URL other than a data: URI that matches 'www.google-analytics.com' ever
\* has a ledger entry or a dispatch in flight.
C17_AnalyticsAlwaysBlocked ==
    config.kind = "object" =>
        /\ config.resourcesToIgnore =
              IF file.ignoreSet
              THEN file.resourcesToIgnore \o <<GoogleAnalytics>>
              ELSE <<GoogleAnalytics>>
        /\ \A u \in Urls :
              (~IsDataUri(u) /\ (u = GoogleAnalytics \/ RegExpMatch(GoogleAnalytics, u))) =>
                 resourceStatusMap[u] = Undefined /\ inflight[u] = 0

\* C17 witness: with no resourcesToIgnore in the config file, two requests
\* were delivered and neither left a ledger entry: both were requests for
\* the analytics URL, aborted.
C17_Witness ==
    /\ phase = "loop"
    /\ ~file.ignoreSet
    /\ nreq = 2
    /\ \A u \in Urls : resourceStatusMap[u] = Undefined

\* C18: while a dispatch of a URL that was not aborted is still unanswered,
\* the ledger entry of that URL is PENDING.
C18_InFlightIsPending ==
    \A u \in Urls :
        inflight[u] > 0 => resourceStatusMap[u] = ResourceStatus.PENDING

\* C19: a ledger entry is created only by a handled request for a URL that
\* is not blocked, every such request leaves an entry, no step removes an
\* entry, and a response, redirect, error or timeout event for a URL that
\* has no entry leaves the ledger as it was.
C19_EntriesAreRequestedUrls ==
    [][\A u \in Urls :
         /\ (resourceStatusMap[u] = Undefined /\ resourceStatusMap'[u] # Undefined) =>
               /\ nreq' = nreq + 1
               /\ resourceStatusMap'[u] = ResourceStatus.PENDING
               /\ IsDataUri(u) \/ ~MatchesIgnore(u)
         /\ (nreq' # nreq /\ (IsDataUri(u) \/ ~MatchesIgnore(u))
                /\ (ResourceRequested(u) \/ (queued = u /\ QueuedRequested))) =>
               resourceStatusMap'[u] # Undefined
         /\ resourceStatusMap[u] # Undefined => resourceStatusMap'[u] # Undefined
         /\ (resourceStatusMap' # resourceStatusMap /\ resourceStatusMap[u] = Undefined) =>
               ~ \/ \E stage \in {"start", "end"} : ResourceReceived(u, stage)
                 \/ ResourceRedirected(u, UrlPage)
                 \/ ResourceError(u)
                 \/ ResourceTimeout(u)
      ]_vars

\* C19 witness: without a configured blocklist two requests were handled
\* and the ledger has the one entry of h/p, with one dispatch in flight.
C19_Witness ==
    /\ ~file.ignoreSet
    /\ nreq = 2
    /\ resourceStatusMap[UrlPage] = ResourceStatus.PENDING
    /\ inflight[UrlPage] = 1
    /\ \A u \in Urls \ {UrlPage} : resourceStatusMap[u] = Undefined

\* C20: a response event whose stage is not 'end' changes no ledger entry
\* and answers no dispatch: an entry that is PENDING is PENDING after it.
C20_StartStageLeavesLedger ==
    [][\A u \in Urls :
         (resourceStatusMap' # resourceStatusMap \/ inflight' # inflight) =>
            ~ResourceReceived(u, "start")]_vars

\* C20 witness: the interval is cleared and the poll for doInject waits for
\* the one PENDING entry, whose dispatch is unanswered, whatever 'start'
\* events have been delivered for it.
C20_Witness ==
    /\ phase = "loop"
    /\ intervals = 0
    /\ polls["doInject"] = 1
    /\ injects = 0
    /\ resourceStatusMap[UrlQuery] = ResourceStatus.PENDING
    /\ inflight[UrlQuery] = 1
====
